---- MODULE Spec2Model ----
(***************************************************************************)
(* A model of equiformer_pytorch/equiformer_pytorch.py.                    *)
(*                                                                         *)
(* Spec      Equiformer.forward: self-exclusion, neighbour restriction,    *)
(*           the total_neighbors assertion, top-k selection, neighbor_mask. *)
(* SpecGate  Gate.__init__.                                                 *)
(* SpecConv  Conv.forward's chunked kernel application.                     *)
(* SpecAttn  Attention.forward's masked softmax.                            *)
(* SpecTrunk Equiformer.forward's feature maps (degrees and shapes).        *)
(*                                                                         *)
(* Conventions.  Tensors are sequences (1-based): node i of the source     *)
(* (0-based) is node i+1 here, and so are the values of `indices`.  The    *)
(* batch size is 1.  Coordinates lie on the x axis (y = z = 0), so that    *)
(* the norm of a relative position is exactly |dx|.  Python's None is the   *)
(* empty sequence.                                                         *)
(***************************************************************************)
EXTENDS Integers, Sequences, FiniteSets, TLC

VARIABLES
    \* Equiformer.forward (neighbour stage)
    pc, num_neighbors, valid_radius_cfg, n, coors, mask, nmask,
    indices, rel_dist, pair_mask, modified_rel_dist, diagnostic, valid_radius,
    total_neighbors, nearest_indices, dist_values, neighbor_mask,
    neighbor_indices, neighbor_rel_dist, result,
    \* the other components, one record each
    gate, conv, attn, trunk, ff

fwdVars == <<pc, num_neighbors, valid_radius_cfg, n, coors, mask, nmask,
             indices, rel_dist, pair_mask, modified_rel_dist, diagnostic,
             valid_radius, total_neighbors, nearest_indices, dist_values,
             neighbor_mask, neighbor_indices, neighbor_rel_dist, result>>

vars == <<fwdVars, gate, conv, attn, trunk, ff>>

----------------------------------------------------------------------------
(* Bounds of the model. *)

MaxN == 3
MaxCoord == 1

(* Numbers of the program. *)

\* float('inf'), the default of num_neighbors
Inf == 2147483647
\* torch.finfo(dtype).max, the fill value of masked-out distances
MaxValue == 2000000000
\* the default valid_radius, 1e5
DefaultRadius == 100000

None == << >>

exists(v) == v # None

Min(a, b) == IF a <= b THEN a ELSE b

Abs(a) == IF a < 0 THEN 0 - a ELSE a

Idle == [pc |-> "idle"]

----------------------------------------------------------------------------
(* Tensor primitives used by Equiformer.forward. *)

\* t.masked_select(m).reshape(n, cols) for n x n tensors t and m: the entries
\* of t where m is true, read in row-major order, cut into rows of `cols`.
Flatten(t, rows) ==
    [k \in 1..(rows * rows) |-> t[((k - 1) \div rows) + 1][((k - 1) % rows) + 1]]

MaskedSelect(t, m, rows) ==
    LET ft  == Flatten(t, rows)
        fm  == Flatten(m, rows)
        pos == SelectSeq([k \in 1..(rows * rows) |-> k], LAMBDA k : fm[k])
    IN  [p \in 1..Len(pos) |-> ft[pos[p]]]

Reshape(s, rows, cols) ==
    [i \in 1..rows |-> [p \in 1..cols |-> s[(i - 1) * cols + p]]]

\* (mutant) the mask of a flipped identity: the anti-diagonal is excluded
exclude_anti_diagonal(rows) == [i \in 1..rows |-> [j \in 1..rows |-> j # rows + 1 - i]]

\* ~torch.eye(n)
exclude_self_mask(rows) == [i \in 1..rows |-> [j \in 1..rows |-> i # j]]

\* line 573 (and lines 581, 586)
remove_self(t, rows) ==
    Reshape(MaskedSelect(t, exclude_self_mask(rows), rows), rows, rows - 1)

\* batched_index_select(values, idx, dim = 2): out[i][p] = values[i][idx[i][p]]
batched_index_select(values, idx) ==
    [i \in 1..Len(idx) |-> [p \in 1..Len(idx[i]) |-> values[i][idx[i][p]]]]

\* t.masked_fill(m, value)
masked_fill(t, m, value) ==
    [i \in 1..Len(t) |-> [p \in 1..Len(t[i]) |-> IF m[i][p] THEN value ELSE t[i][p]]]

RECURSIVE SumBool(_)
SumBool(s) ==
    IF Len(s) = 0 THEN 0 ELSE (IF s[1] THEN 1 ELSE 0) + SumBool(Tail(s))

RECURSIVE MaxOf(_)
MaxOf(s) ==
    IF Len(s) = 1 THEN s[1]
    ELSE LET m == MaxOf(Tail(s)) IN IF s[1] >= m THEN s[1] ELSE m

\* The sequences of k distinct positions of 1..len.
DistinctSeqs(len, k) ==
    { s \in [1..k -> 1..len] : \A a, b \in 1..k : a # b => s[a] # s[b] }

\* row.topk(k, largest = False): the positions of k smallest values, in ascending
\* order of value.  The order among equal values is not specified by the
\* runtime: every such answer is possible.
TopKSmallest(row, k) ==
    { s \in DistinctSeqs(Len(row), k) :
        /\ \A a \in 1..(k - 1) : row[s[a]] <= row[s[a + 1]]
        /\ \A u \in 1..Len(row) :
              (\A a \in 1..k : s[a] # u) => \A a \in 1..k : row[s[a]] <= row[u] }

\* (mutant) largest = True
TopKLargest(row, k) ==
    { s \in DistinctSeqs(Len(row), k) :
        /\ \A a \in 1..(k - 1) : row[s[a]] >= row[s[a + 1]]
        /\ \A u \in 1..Len(row) :
              (\A a \in 1..k : s[a] # u) => \A a \in 1..k : row[s[a]] >= row[u] }

\* line 626: modified_rel_dist.topk(total_neighbors, dim = -1, largest = False)
topk(row, k) == TopKSmallest(row, k)

\* One top-k answer per row.
RECURSIVE TopKRows(_, _, _)
TopKRows(t, k, upto) ==
    IF upto = 0 THEN { << >> }
    ELSE { Append(rows, s) : rows \in TopKRows(t, k, upto - 1), s \in topk(t[upto], k) }

----------------------------------------------------------------------------
(* Equiformer.forward, lines 563-645. *)

\* int(min(neighbors, n - 1))
TotalNeighbors(neighbors, nodes) == Min(neighbors, nodes - 1)

\* (mutant) assert total_neighbors >= 0
assert_nonnegative(total) == total >= 0

\* line 622: assert total_neighbors > 0
assert_total_neighbors(total) == total > 0

FwdInit ==
    /\ pc = "start"
    /\ n \in 1..MaxN
    /\ coors \in [1..n -> 0..MaxCoord]
    /\ mask \in {None} \cup [1..n -> BOOLEAN]
    /\ nmask \in {None} \cup
         { m \in [1..n -> [1..n -> BOOLEAN]] : \A i \in 1..n : ~m[i][i] }
    /\ num_neighbors \in (0..(MaxN - 1)) \cup {Inf}
    /\ valid_radius_cfg \in {0, DefaultRadius, Inf}
    /\ indices = None
    /\ rel_dist = None
    /\ pair_mask = None
    /\ modified_rel_dist = None
    /\ diagnostic = FALSE
    /\ valid_radius = valid_radius_cfg
    /\ total_neighbors = 0
    /\ nearest_indices = None
    /\ dist_values = None
    /\ neighbor_mask = None
    /\ neighbor_indices = None
    /\ neighbor_rel_dist = None
    /\ result = "none"

\* lines 572-594: the pairwise tensors, with the self entries removed
ExcludeSelf ==
    /\ pc = "start"
    /\ indices' = remove_self([i \in 1..n |-> [j \in 1..n |-> j]], n)
    /\ rel_dist' = remove_self([i \in 1..n |-> [j \in 1..n |-> Abs(coors[i] - coors[j])]], n)
    /\ pair_mask' = IF exists(mask)
                    THEN remove_self([i \in 1..n |-> [j \in 1..n |-> mask[i] /\ mask[j]]], n)
                    ELSE None
    /\ pc' = "neighbors"
    /\ UNCHANGED <<num_neighbors, valid_radius_cfg, n, coors, mask, nmask,
                   modified_rel_dist, diagnostic, valid_radius, total_neighbors,
                   nearest_indices, dist_values, neighbor_mask, neighbor_indices,
                   neighbor_rel_dist, result>>

\* lines 598-615: the neighbor-validity mask and the num_neighbors = 0 case
RestrictNeighbors ==
    /\ pc = "neighbors"
    /\ IF exists(nmask)
       THEN LET nm == remove_self(nmask, n)
                max_neighbors == MaxOf([i \in 1..n |-> SumBool(nm[i])])
            IN  /\ diagnostic' = (max_neighbors > num_neighbors)
                /\ modified_rel_dist' =
                       masked_fill(rel_dist,
                                   [i \in 1..n |-> [p \in 1..(n - 1) |-> ~nm[i][p]]],
                                   MaxValue)
       ELSE /\ diagnostic' = FALSE
            /\ modified_rel_dist' = rel_dist
    /\ valid_radius' = IF num_neighbors = 0 THEN 0 ELSE valid_radius
    /\ pc' = "assert"
    /\ UNCHANGED <<num_neighbors, valid_radius_cfg, n, coors, mask, nmask,
                   indices, rel_dist, pair_mask, total_neighbors,
                   nearest_indices, dist_values, neighbor_mask, neighbor_indices,
                   neighbor_rel_dist, result>>

\* lines 619-624: assert total_neighbors > 0
AssertNeighbors ==
    /\ pc = "assert"
    /\ total_neighbors' = TotalNeighbors(num_neighbors, n)
    /\ pc' = IF assert_total_neighbors(total_neighbors') THEN "topk" ELSE "aborted"
    /\ UNCHANGED <<num_neighbors, valid_radius_cfg, n, coors, mask, nmask,
                   indices, rel_dist, pair_mask, modified_rel_dist, diagnostic,
                   valid_radius, nearest_indices, dist_values, neighbor_mask,
                   neighbor_indices, neighbor_rel_dist, result>>

\* line 627 and lines 633-634
NeighborMask(dvalues, radius, pmask, nearest) ==
    LET within == [i \in 1..Len(dvalues) |->
                      [p \in 1..Len(dvalues[i]) |-> dvalues[i][p] <= radius]]
        padded == batched_index_select(pmask, nearest)
    IN  IF exists(pmask)
        THEN [i \in 1..Len(within) |->
                 [p \in 1..Len(within[i]) |-> within[i][p] /\ padded[i][p]]]
        ELSE within

\* lines 626-634: top-k by modified distance, validity, gathers
SelectNeighbors ==
    /\ pc = "topk"
    /\ \E nearest \in TopKRows(modified_rel_dist, total_neighbors, n) :
          /\ nearest_indices' = nearest
          /\ dist_values' = batched_index_select(modified_rel_dist, nearest)
          /\ neighbor_mask' = NeighborMask(dist_values', valid_radius, pair_mask, nearest)
          /\ neighbor_rel_dist' = batched_index_select(rel_dist, nearest)
          /\ neighbor_indices' = batched_index_select(indices, nearest)
    /\ pc' = "basis"
    /\ UNCHANGED <<num_neighbors, valid_radius_cfg, n, coors, mask, nmask,
                   indices, rel_dist, pair_mask, modified_rel_dist, diagnostic,
                   valid_radius, total_neighbors, result>>

\* lines 641-685: basis, conv_in, the layers, the norm and the return
BasisAndTrunk ==
    /\ pc = "basis"
    /\ pc' = "done"
    /\ result' = "returned"
    /\ UNCHANGED <<num_neighbors, valid_radius_cfg, n, coors, mask, nmask,
                   indices, rel_dist, pair_mask, modified_rel_dist, diagnostic,
                   valid_radius, total_neighbors, nearest_indices, dist_values,
                   neighbor_mask, neighbor_indices, neighbor_rel_dist>>

Init ==
    /\ FwdInit
    /\ ff = Idle
    /\ gate = Idle
    /\ conv = Idle
    /\ attn = Idle
    /\ trunk = Idle

Next ==
    \/ ExcludeSelf /\ UNCHANGED <<gate, conv, attn, trunk, ff>>
    \/ RestrictNeighbors /\ UNCHANGED <<gate, conv, attn, trunk, ff>>
    \/ AssertNeighbors /\ UNCHANGED <<gate, conv, attn, trunk, ff>>
    \/ SelectNeighbors /\ UNCHANGED <<gate, conv, attn, trunk, ff>>
    \/ BasisAndTrunk /\ UNCHANGED <<gate, conv, attn, trunk, ff>>

Spec == Init /\ [][Next]_vars

----------------------------------------------------------------------------
(* The components below run under specifications of their own, in which    *)
(* Equiformer.forward's neighbour stage is not running.                     *)

FwdIdle ==
    /\ pc = "idle"
    /\ n = 0
    /\ coors = None
    /\ mask = None
    /\ nmask = None
    /\ num_neighbors = 0
    /\ valid_radius_cfg = 0
    /\ indices = None
    /\ rel_dist = None
    /\ pair_mask = None
    /\ modified_rel_dist = None
    /\ diagnostic = FALSE
    /\ valid_radius = 0
    /\ total_neighbors = 0
    /\ nearest_indices = None
    /\ dist_values = None
    /\ neighbor_mask = None
    /\ neighbor_indices = None
    /\ neighbor_rel_dist = None
    /\ result = "none"

\* The fibers of 1..maxlen degrees with 0..maxdim channels per degree.
Fibers(maxlen, maxdim) == UNION { [1..len -> 0..maxdim] : len \in 1..maxlen }

\* sum(t)
RECURSIVE Sum(_)
Sum(t) == IF Len(t) = 0 THEN 0 ELSE t[1] + Sum(Tail(t))

----------------------------------------------------------------------------
(* Gate, lines 124-155.  A fiber is the sequence of its channel counts:     *)
(* fiber[d + 1] is the width of degree d.                                   *)

MaxDegrees == 3
MaxDim == 3

\* (mutant) assert type0_dim >= dim_gate
gate_assert_not_less(type0_dim, dim_gate) == type0_dim >= dim_gate

\* line 134: assert type0_dim > dim_gate
gate_assert(type0_dim, dim_gate) == type0_dim > dim_gate

\* lines 131-138: Gate.__init__(fiber), as the object it leaves
GateConstruct(fiber) ==
    LET type0_dim == fiber[1]
        dim_gate  == Sum(Tail(fiber))
    IN  IF gate_assert(type0_dim, dim_gate)
        THEN [pc |-> "constructed",
              fiber |-> fiber,
              num_degrees |-> Len(fiber),
              type0_dim_split |-> Tail(fiber) \o << type0_dim - dim_gate >>,
              out |-> None]
        ELSE [pc |-> "failed",
              fiber |-> fiber,
              num_degrees |-> 0,
              type0_dim_split |-> None,
              out |-> None]

\* lines 140-155: Gate.forward, on the channel counts of x: degree 0 is split
\* by type0_dim_split, its last block is the new degree 0, and the degrees
\* 1..num_degrees-1 keep their width
GateForwardFiber(g) ==
    LET blocks == g.type0_dim_split
    IN  << blocks[Len(blocks)] >> \o [d \in 1..(g.num_degrees - 1) |-> g.fiber[d + 1]]

GateInitState ==
    gate \in { [pc |-> "new", fiber |-> f, num_degrees |-> 0,
                   type0_dim_split |-> None, out |-> None] :
                    f \in Fibers(MaxDegrees, MaxDim) }

GateInit ==
    /\ gate.pc = "new"
    /\ gate' = GateConstruct(gate.fiber)

GateForward ==
    /\ gate.pc = "constructed"
    /\ gate' = [gate EXCEPT !.pc = "forwarded", !.out = GateForwardFiber(gate)]

InitGate ==
    /\ FwdIdle
    /\ ff = Idle
    /\ GateInitState
    /\ conv = Idle
    /\ attn = Idle
    /\ trunk = Idle

NextGate ==
    \/ GateInit /\ UNCHANGED <<fwdVars, conv, attn, trunk, ff>>
    \/ GateForward /\ UNCHANGED <<fwdVars, conv, attn, trunk, ff>>

SpecGate == InitGate /\ [][NextGate]_vars

----------------------------------------------------------------------------
(* Conv.forward, lines 187-248.                                             *)
(*                                                                         *)
(* A tensor is the sequence of its slices along dim 1 (the node axis, the  *)
(* axis that is chunked); a slice is kept symbolic.  A feature map is the  *)
(* sequence of its (degree, tensor) items in the order of insertion, as a  *)
(* Python dict iterates them.  A sum of tensors is, slice by slice, the    *)
(* sequence of its terms.                                                   *)

MaxNodes == 6
MaxSplits == 4
MaxConvDegrees == 2

Max(a, b) == IF a >= b THEN a ELSE b

\* fast_split(arr, splits, dim = 1): `splits` contiguous pieces (the first
\* `remainder` of them one longer), at most one per slice
RECURSIVE FastSplitFrom(_, _, _, _, _)
FastSplitFrom(arr, s, chunk_size, remainder, left) ==
    IF left = 0 THEN << >>
    ELSE LET adjust == IF remainder > 0 THEN 1 ELSE 0
             size   == chunk_size + adjust
         IN  << SubSeq(arr, s + 1, s + size) >> \o
             FastSplitFrom(arr, s + size, chunk_size, remainder - 1, left - 1)

fast_split(arr, splits) ==
    LET axis_len   == Len(arr)
        pieces     == Min(axis_len, Max(splits, 1))
        chunk_size == axis_len \div pieces
        remainder  == axis_len - chunk_size * pieces
    IN  FastSplitFrom(arr, 0, chunk_size, remainder, pieces)

\* safe_cat(arr, el, dim = 1)
safe_cat(arr, el) == IF ~exists(arr) THEN el ELSE arr \o el

\* zip(a, b, c): as long as the shortest
Zip3(a, b, c) ==
    [j \in 1..Min(Len(a), Min(Len(b), Len(c))) |-> << a[j], b[j], c[j] >>]

\* The keys of a feature map, in iteration order.
Keys(fmap) == [j \in 1..Len(fmap) |-> fmap[j].degree]

Has(fmap, degree) == \E j \in 1..Len(fmap) : fmap[j].degree = degree

Get(fmap, degree) == fmap[CHOOSE j \in 1..Len(fmap) : fmap[j].degree = degree].t

\* out[degree] = tensor: a new key goes last, an old key keeps its place
Put(fmap, degree, tensor) ==
    IF Has(fmap, degree)
    THEN [j \in 1..Len(fmap) |->
             IF fmap[j].degree = degree THEN [degree |-> degree, t |-> tensor] ELSE fmap[j]]
    ELSE Append(fmap, [degree |-> degree, t |-> tensor])

\* The sum of two tensors: of two shapes (the same shape), or, when the
\* tensors are kept slice by slice, the sum of the slices.
AddShape(a, b) == IF a = b THEN a ELSE << >>

AddSelf(a, b) == [p \in 1..Len(a) |-> << "+", a[p], b[p] >>]

TensorAdd(a, b, sliced) == IF sliced THEN AddSelf(a, b) ELSE AddShape(a, b)

\* lines 55-64: residual_fn(x, residual)
RECURSIVE ResidualFrom(_, _, _, _, _)
ResidualFrom(x, residual, sliced, j, out) ==
    IF j > Len(x) THEN out
    ELSE LET degree == x[j].degree
             tensor == x[j].t
         IN  ResidualFrom(x, residual, sliced, j + 1,
                 IF Has(residual, degree)
                 THEN Put(Put(out, degree, tensor), degree,
                          TensorAdd(tensor, Get(residual, degree), sliced))
                 ELSE Put(out, degree, tensor))

\* (mutant) the loop runs over residual.items(): a degree of x that the
\* residual lacks is dropped
residual_over_residual(x, residual, sliced) ==
    ResidualFrom(SelectSeq(x, LAMBDA item : Has(residual, item.degree)),
                 residual, sliced, 1, << >>)

residual_fn(x, residual, sliced) == ResidualFrom(x, residual, sliced, 1, << >>)

\* (mutant) the common degrees, highest first
fiber_and_reversed(fiber_in, fiber_out) ==
    LET common == Min(Len(fiber_in), Len(fiber_out))
    IN  [j \in 1..common |->
            [degree |-> common - j, dim |-> fiber_in[common - j + 1],
             dim_out |-> fiber_out[common - j + 1]]]

\* lines 32-47: fiber_and(fiber_in, fiber_out), the degrees of both fibers
fiber_and(fiber_in, fiber_out) ==
    [d \in 1..Min(Len(fiber_in), Len(fiber_out)) |->
        [degree |-> d - 1, dim |-> fiber_in[d], dim_out |-> fiber_out[d]]]

\* The sum of two tensors, slice by slice (0 is the empty sum).
AddTerms(a, b) == IF a = << >> THEN b ELSE [p \in 1..Len(b) |-> a[p] \o b[p]]

\* lines 215-218: inp[degree_in] gathered by neighbor_indices, slice p
GatheredX(nodes, degree_in) == [p \in 1..nodes |-> << "x", degree_in, p >>]

\* line 221: rel_dist, with the edges when there are any, slice p
EdgeFeatures(nodes, with_edges) ==
    [p \in 1..nodes |-> << (IF with_edges THEN "rel_dist,edges" ELSE "rel_dist"), p >>]

\* the basis of get_basis: for every key (degree_in, degree_out), slice p
BasisOf(nodes, fiber_in, fiber_out) ==
    [key \in (0..(Len(fiber_in) - 1)) \X (0..(Len(fiber_out) - 1)) |->
        [p \in 1..nodes |-> << "basis", key[1], key[2], p >>]]

\* lines 203-205: every value of the basis split, one dict per chunk
SplitBasis(basis, splits) ==
    LET keys   == DOMAIN basis
        first  == CHOOSE key \in keys : TRUE
        pieces == Len(fast_split(basis[first], splits))
    IN  [j \in 1..pieces |-> [key \in keys |-> fast_split(basis[key], splits)[j]]]

\* lines 230-231 (and PairwiseConv.forward, lines 300-316): the kernel of the
\* edge features and of the basis of etype, applied to x, slice by slice
KernelApply(etype, x_chunk, edge_features, basis) ==
    [p \in 1..Len(x_chunk) |->
        << << "conv", etype, edge_features[p], basis[etype][p], x_chunk[p] >> >>]

\* (mutant) the chunk goes in front of what was computed before
ConcatInFront(output_chunk, chunk) == safe_cat(chunk, output_chunk)

\* line 232: output_chunk = safe_cat(output_chunk, chunk, dim = 1)
ConcatChunk(output_chunk, chunk) == safe_cat(output_chunk, chunk)

ConvInitState ==
    /\ conv \in { [pc |-> "begin", splits |-> sp, nodes |-> nd,
                fiber_in |-> [d \in 1..li |-> 1], fiber_out |-> [d \in 1..lo |-> 1],
                pool |-> po, self_interaction |-> si, edges |-> ed, neighbor_masks |-> nm,
                split_basis |-> None, degree_out |-> 0, degree_in |-> 0,
                x |-> None, split_x |-> None, split_edge_features |-> None,
                chunk |-> 0, output_chunk |-> None, output |-> None, outputs |-> None] :
                sp \in 1..MaxSplits, nd \in 1..MaxNodes,
                li \in 1..MaxConvDegrees, lo \in 1..MaxConvDegrees,
                po \in BOOLEAN, si \in BOOLEAN, ed \in BOOLEAN, nm \in BOOLEAN }
    \* line 184: assert self.pool
    /\ conv.self_interaction => conv.pool

\* lines 194-205
ConvBegin ==
    /\ conv.pc = "begin"
    /\ conv' = [conv EXCEPT
                  !.pc = "pair",
                  !.split_basis =
                      SplitBasis(BasisOf(conv.nodes, conv.fiber_in, conv.fiber_out), conv.splits),
                  !.outputs = << >>,
                  !.output = << >>]

\* lines 212-225: the next input degree of the current output degree
ConvGather ==
    /\ conv.pc = "pair"
    /\ LET x == GatheredX(conv.nodes, conv.degree_in)
           edge_features == EdgeFeatures(conv.nodes, conv.edges)
       IN  conv' = [conv EXCEPT
                      !.pc = "chunk",
                      !.x = x,
                      !.output_chunk = None,
                      !.split_x = fast_split(x, conv.splits),
                      !.split_edge_features = fast_split(edge_features, conv.splits),
                      !.chunk = 1]

\* lines 229-232: one turn of the loop over the chunks
ConvChunk ==
    /\ conv.pc = "chunk"
    /\ LET zipped == Zip3(conv.split_x, conv.split_edge_features, conv.split_basis)
       IN  /\ conv.chunk <= Len(zipped)
           /\ LET x_chunk       == zipped[conv.chunk][1]
                  edge_features == zipped[conv.chunk][2]
                  basis         == zipped[conv.chunk][3]
                  chunk == KernelApply(<< conv.degree_in, conv.degree_out >>,
                                       x_chunk, edge_features, basis)
              IN  conv' = [conv EXCEPT
                             !.output_chunk = ConcatChunk(conv.output_chunk, chunk),
                             !.chunk = conv.chunk + 1]

\* line 234, at the end of the loop over the chunks
ConvAccumulate ==
    /\ conv.pc = "chunk"
    /\ conv.chunk > Len(Zip3(conv.split_x, conv.split_edge_features, conv.split_basis))
    /\ conv' = [conv EXCEPT
                  !.output = AddTerms(conv.output, conv.output_chunk),
                  !.degree_in = conv.degree_in + 1,
                  !.pc = IF conv.degree_in + 1 < Len(conv.fiber_in) THEN "pair" ELSE "pool"]

\* lines 236-242: the output of the current output degree
ConvPool ==
    /\ conv.pc = "pool"
    /\ LET pooled ==
              IF conv.pool
              THEN [p \in 1..Len(conv.output) |->
                       << (IF conv.neighbor_masks THEN "masked_mean" ELSE "mean"),
                          conv.output[p] >>]
              ELSE conv.output
       IN  conv' = [conv EXCEPT
                      !.outputs = Put(conv.outputs, conv.degree_out, pooled),
                      !.output = << >>,
                      !.degree_in = 0,
                      !.degree_out = conv.degree_out + 1,
                      !.pc = IF conv.degree_out + 1 < Len(conv.fiber_out)
                             THEN "pair" ELSE "self"]

\* lines 83-89: Linear(fiber_in, fiber_out).forward(inp), slice by slice
SelfInteract(nodes, fiber_in, fiber_out) ==
    LET both == fiber_and(fiber_in, fiber_out)
    IN  [j \in 1..Len(both) |->
            [degree |-> both[j].degree,
             t |-> [p \in 1..nodes |-> << "linear", both[j].degree, p >>]]]

\* lines 244-248
ConvSelfInteract ==
    /\ conv.pc = "self"
    /\ conv' = [conv EXCEPT
                  !.pc = "done",
                  !.outputs =
                      IF conv.self_interaction
                      THEN residual_fn(conv.outputs,
                                       SelfInteract(conv.nodes, conv.fiber_in, conv.fiber_out),
                                       TRUE)
                      ELSE conv.outputs]

InitConv ==
    /\ FwdIdle
    /\ ff = Idle
    /\ gate = Idle
    /\ ConvInitState
    /\ attn = Idle
    /\ trunk = Idle

NextConv ==
    \/ ConvBegin /\ UNCHANGED <<fwdVars, gate, attn, trunk, ff>>
    \/ ConvGather /\ UNCHANGED <<fwdVars, gate, attn, trunk, ff>>
    \/ ConvChunk /\ UNCHANGED <<fwdVars, gate, attn, trunk, ff>>
    \/ ConvAccumulate /\ UNCHANGED <<fwdVars, gate, attn, trunk, ff>>
    \/ ConvPool /\ UNCHANGED <<fwdVars, gate, attn, trunk, ff>>
    \/ ConvSelfInteract /\ UNCHANGED <<fwdVars, gate, attn, trunk, ff>>

SpecConv == InitConv /\ [][NextConv]_vars

----------------------------------------------------------------------------
(* Attention.forward, lines 394-436: the similarities of one degree, their  *)
(* masking by neighbor_mask and the softmax over the neighbour axis.        *)
(* sim[h][i][j] is the similarity of head h and node i to position j of the *)
(* neighbour axis.                                                          *)

MaxAttnNodes == 2
MaxAttnNeighbors == 2
MaxHeads == 2
MaxAttnDegrees == 2
MaxSim == 1

\* float32: exp(x) is 0 for x below about -104
ExpUnderflow == 104

\* F.pad(neighbor_mask, (num_left_pad, 0), value = True), row by row
PadLeft(m, num_left_pad) ==
    [i \in 1..Len(m) |->
        [j \in 1..(Len(m[i]) + num_left_pad) |->
            IF j <= num_left_pad THEN TRUE ELSE m[i][j - num_left_pad]]]

\* lines 427-430: sim.masked_fill(~mask, -torch.finfo(sim.dtype).max), the
\* mask broadcast over the heads
MaskSim(sim, nbr_mask) ==
    IF exists(nbr_mask)
    THEN LET num_left_pad == Len(sim[1][1]) - Len(nbr_mask[1])
             padded == PadLeft(nbr_mask, num_left_pad)
         IN  [h \in 1..Len(sim) |->
                 masked_fill(sim[h],
                             [i \in 1..Len(padded) |->
                                 [j \in 1..Len(padded[i]) |-> ~padded[i][j]]],
                             0 - MaxValue)]
    ELSE sim

\* line 432: sim.softmax(dim = -1), each weight up to the positive factor of
\* its row: the weight of j is exp(sim[j] - max(sim)) / sum, which is 0 when
\* the exponential underflows and positive (1 here) otherwise
Softmax(row) ==
    [j \in 1..Len(row) |-> IF row[j] - MaxOf(row) < 0 - ExpUnderflow THEN 0 ELSE 1]

\* line 433: the positions of the neighbour axis whose value enters `out`
Contributing(weights) == { j \in 1..Len(weights) : weights[j] > 0 }

AttnInitState ==
    /\ attn \in { [pc |-> "loop", attend_self |-> as, nodes |-> nd, neighbors |-> nb,
                neighbor_mask |-> nm, heads |-> hd, degree |-> 0,
                sim |-> None, attn |-> None, outputs |-> << >>] :
                as \in BOOLEAN, nd \in 1..MaxAttnNodes, nb \in 1..MaxAttnNeighbors,
                nm \in {None} \cup
                       UNION { [1..a -> [1..b -> BOOLEAN]] :
                                 a \in 1..MaxAttnNodes, b \in 1..MaxAttnNeighbors },
                hd \in UNION { [1..d -> 1..MaxHeads] : d \in 1..MaxAttnDegrees } }
    /\ exists(attn.neighbor_mask) =>
          /\ Len(attn.neighbor_mask) = attn.nodes
          /\ Len(attn.neighbor_mask[1]) = attn.neighbors

\* lines 413-425: q, k and v of the next degree; the self key goes first
AttnSimilarity ==
    /\ attn.pc = "loop"
    /\ attn.degree < Len(attn.heads)
    /\ LET h == attn.heads[attn.degree + 1]
           positions == attn.neighbors + (IF attn.attend_self THEN 1 ELSE 0)
       IN  \E sim \in [1..h -> [1..attn.nodes -> [1..positions -> 0..MaxSim]]] :
              attn' = [attn EXCEPT !.pc = "mask", !.sim = sim]

\* lines 427-430
AttnMask ==
    /\ attn.pc = "mask"
    /\ attn' = [attn EXCEPT !.pc = "softmax",
                            !.sim = MaskSim(attn.sim, attn.neighbor_mask)]

\* lines 432-434
AttnSoftmax ==
    /\ attn.pc = "softmax"
    /\ LET weights == [h \in 1..Len(attn.sim) |->
                          [i \in 1..attn.nodes |-> Softmax(attn.sim[h][i])]]
           out == [h \in 1..Len(attn.sim) |->
                      [i \in 1..attn.nodes |-> Contributing(weights[h][i])]]
       IN  attn' = [attn EXCEPT !.pc = "loop",
                                !.sim = None,
                                !.attn = weights,
                                !.outputs = Put(attn.outputs, attn.degree, out),
                                !.degree = attn.degree + 1]

\* line 436
AttnOut ==
    /\ attn.pc = "loop"
    /\ attn.degree = Len(attn.heads)
    /\ attn' = [attn EXCEPT !.pc = "done"]

InitAttn ==
    /\ FwdIdle
    /\ ff = Idle
    /\ gate = Idle
    /\ conv = Idle
    /\ AttnInitState
    /\ trunk = Idle

NextAttn ==
    \/ AttnSimilarity /\ UNCHANGED <<fwdVars, gate, conv, trunk, ff>>
    \/ AttnMask /\ UNCHANGED <<fwdVars, gate, conv, trunk, ff>>
    \/ AttnSoftmax /\ UNCHANGED <<fwdVars, gate, conv, trunk, ff>>
    \/ AttnOut /\ UNCHANGED <<fwdVars, gate, conv, trunk, ff>>

SpecAttn == InitAttn /\ [][NextAttn]_vars

----------------------------------------------------------------------------
(* Equiformer.__init__ and Equiformer.forward, lines 441-685: the feature   *)
(* maps.  A tensor is its shape, a feature map the sequence of its          *)
(* (degree, shape) items in the order of insertion.                         *)

MaxTrunkDegrees == 2
MaxChannels == 2
MaxDepth == 1
MaxTrunkNodes == 2

\* heads = 8, the default
DefaultHeads == 8
\* dim_head = 24, the default
DefaultDimHead == 24
\* FeedForward's mult = 4
DefaultMult == 4

\* to_order(degree)
to_order(degree) == 2 * degree + 1

\* cast_tuple(val, depth) of a number
cast_tuple(val, depth) == [d \in 1..depth |-> val]

Item(degree, shape) == [degree |-> degree, t |-> shape]

\* lines 83-89: Linear(fiber_in, fiber_out).forward(x)
LinearForward(fiber_in, fiber_out, x) ==
    LET both == fiber_and(fiber_in, fiber_out)
    IN  [j \in 1..Len(both) |->
            LET shape == Get(x, both[j].degree)
            IN  Item(both[j].degree,
                     [a \in 1..Len(shape) |->
                         IF a = Len(shape) - 1 THEN both[j].dim_out ELSE shape[a]])]

\* lines 107-113: zip(self.transforms, features.items()); transforms[d] was
\* built for degree d.  The pairs (degree of the scale, degree of the tensor).
NormPairing(fiber, features) ==
    [j \in 1..Min(Len(fiber), Len(features)) |-> << j - 1, features[j].degree >>]

\* line 413: zip(features.keys(), self.heads, self.scale); heads[d] and
\* scale[d] were built for degree d (lines 375-378)
AttnPairing(heads, features) ==
    [j \in 1..Min(Len(features), Len(heads)) |-> << j - 1, features[j].degree >>]

\* lines 110-121: Norm(fiber).forward(features); the scales and the items of
\* the feature map are paired by position
NormForward(fiber, features) ==
    [j \in 1..Min(Len(fiber), Len(features)) |-> features[j]]

\* lines 140-155: Gate(fiber).forward(x)
GateForward_(g, x) ==
    LET shape0 == Get(x, 0)
        blocks == g.type0_dim_split
    IN  << Item(0, [a \in 1..Len(shape0) |->
                       IF a = Len(shape0) - 1 THEN blocks[Len(blocks)] ELSE shape0[a]]) >>
        \o [d \in 1..Min(g.num_degrees - 1, Len(blocks) - 1) |-> Item(d, Get(x, d))]

\* lines 209-248: Conv(fiber_in, fiber_out, pool, self_interaction).forward
ConvForward(fiber_in, fiber_out, pool, self_interaction, inp, neighbors) ==
    LET lead == SubSeq(inp[1].t, 1, 2)
        outputs == [do \in 1..Len(fiber_out) |->
                       Item(do - 1,
                            (IF pool THEN lead ELSE Append(lead, neighbors))
                               \o << fiber_out[do], to_order(do - 1) >>)]
    IN  IF self_interaction
        THEN residual_fn(outputs, LinearForward(fiber_in, fiber_out, inp), FALSE)
        ELSE outputs

\* line 331: fiber_hidden = tuple(dim * mult for dim in fiber)
FiberHidden(fiber, mult) == [d \in 1..Len(fiber) |-> fiber[d] * mult]

\* (mutant) line 335 left out: degree 0 gets no gate channels
ProjectInWithoutGate(fiber, mult) == FiberHidden(fiber, mult)

\* lines 333-336: project_in_fiber_hidden, fiber_hidden with dim_gate more
\* channels of degree 0
ProjectInFiberHidden(fiber, mult) ==
    LET fiber_hidden == FiberHidden(fiber, mult)
        dim_gate == Sum(Tail(fiber_hidden))
    IN  [d \in 1..Len(fiber) |->
            IF d = 1 THEN fiber_hidden[1] + dim_gate ELSE fiber_hidden[d]]

\* lines 322-351: FeedForward(fiber, fiber_out).forward(features)
FeedForwardForward(fiber, fiber_out, features) ==
    LET fiber_hidden == FiberHidden(fiber, DefaultMult)
        project_in_fiber_hidden == ProjectInFiberHidden(fiber, DefaultMult)
        normed    == NormForward(fiber, features)
        projected == LinearForward(fiber, project_in_fiber_hidden, normed)
        gated     == GateForward_(GateConstruct(project_in_fiber_hidden), projected)
    IN  LinearForward(fiber_hidden, fiber_out, gated)

\* lines 394-436: Attention(fiber, dim_head, heads).forward(features, ...)
AttentionForward(fiber, dim_head, heads, features, neighbors) ==
    LET hidden_fiber == [d \in 1..Len(fiber) |-> dim_head[d] * heads[d]]
        normed  == NormForward(fiber, features)
        queries == LinearForward(fiber, hidden_fiber, normed)
        values  == ConvForward(fiber, hidden_fiber, FALSE, FALSE, normed, neighbors)
        \* line 413: zip(features.keys(), self.heads, self.scale)
        outputs == [j \in 1..Min(Len(normed), Len(heads)) |->
                       LET degree == normed[j].degree
                           h == heads[j]
                           q == Get(queries, degree)
                           v == Get(values, degree)
                       IN  \* 'b i (h d) m -> b h i d m', then 'b h n d m -> b n (h d) m'
                           Item(degree, << q[1], q[2], h * (v[4] \div h), v[5] >>)]
    IN  LinearForward(hidden_fiber, fiber, outputs)

\* (mutant) the last axis of type0 is kept
KeepLast(shape) == shape

\* line 683: rearrange(type0, '... 1 -> ...')
SqueezeLast(shape) == SubSeq(shape, 1, Len(shape) - 1)

\* '... 1 c -> ... c'
SqueezeChannel(shape) ==
    SubSeq(shape, 1, Len(shape) - 2) \o << shape[Len(shape)] >>

\* t.mean(dim = 1), masked_mean(t, mask, dim = 1)
MeanOverNodes(shape) == << shape[1] >> \o SubSeq(shape, 3, Len(shape))

\* line 673: {k: rearrange(v, '... 1 c -> ... c') for k, v in x.items()}
SqueezeChannels(fmap) ==
    [j \in 1..Len(fmap) |-> Item(fmap[j].degree, SqueezeChannel(fmap[j].t))]

\* line 677: {k: mask_fn(v) for k, v in x.items()}
PoolNodes(fmap) ==
    [j \in 1..Len(fmap) |-> Item(fmap[j].degree, MeanOverNodes(fmap[j].t))]

TrunkInitState ==
    /\ trunk \in
         { [pc |-> "start", dim |-> dm, dim_in |-> cast_tuple(ci, idg), depth |-> dp,
            heads |-> IF hd = 0 THEN [d \in 1..Len(dm) |-> d] ELSE cast_tuple(hd, Len(dm)),
            dim_head |-> cast_tuple(DefaultDimHead, Len(dm)),
            reduce_dim_out |-> rd, linear_out |-> lo, num_neighbors |-> nn,
            b |-> 1, n |-> nd, mask |-> mk, return_pooled |-> rp,
            neighbors |-> 0, layer |-> 0, x |-> None, type0 |-> None, type1 |-> None,
            feats_reversed |-> fr, paired |-> {}] :
            dm \in UNION { [1..dg -> 1..MaxChannels] : dg \in 1..MaxTrunkDegrees },
            ci \in 1..MaxChannels, idg \in 1..MaxTrunkDegrees, dp \in 0..MaxDepth,
            \* heads: a number (the default), or (hd = 0) the tuple (1, 2, ...)
            hd \in {0, DefaultHeads}, rd \in BOOLEAN, lo \in BOOLEAN,
            nn \in {0, Inf}, nd \in {1, MaxTrunkNodes}, mk \in BOOLEAN, rp \in BOOLEAN,
            fr \in BOOLEAN }
    /\ Len(trunk.dim_in) <= Len(trunk.dim)
    \* linear_out is read only when reduce_dim_out is set; the mask only when
    \* pooling, where masked_mean and mean leave the same shape
    /\ ~trunk.reduce_dim_out => trunk.linear_out
    /\ trunk.mask = ~trunk.return_pooled
    \* a dict of feats iterates in the order the caller built it; a tensor is {0: feats}
    /\ Len(trunk.dim_in) = 1 => ~trunk.feats_reversed

\* lines 559-566: feats, one tensor per input degree
TrunkPrepare ==
    /\ trunk.pc = "start"
    /\ trunk' = [trunk EXCEPT
                   !.pc = "assert",
                   !.x = LET degrees == Len(trunk.dim_in)
                             feats == [d \in 1..degrees |->
                                          Item(d - 1, << trunk.b, trunk.n, trunk.dim_in[d],
                                                         to_order(d - 1) >>)]
                         IN  IF trunk.feats_reversed
                             THEN [j \in 1..degrees |-> feats[degrees + 1 - j]]
                             ELSE feats]

\* lines 619-624
TrunkAssertNeighbors ==
    /\ trunk.pc = "assert"
    /\ LET total == TotalNeighbors(trunk.num_neighbors, trunk.n)
       IN  trunk' = [trunk EXCEPT
                       !.neighbors = total,
                       !.pc = IF assert_total_neighbors(total) THEN "conv_in" ELSE "aborted"]

\* line 650
TrunkConvIn ==
    /\ trunk.pc = "conv_in"
    /\ trunk' = [trunk EXCEPT
                   !.pc = "attn",
                   !.x = ConvForward(trunk.dim_in, trunk.dim, TRUE, TRUE, trunk.x,
                                     trunk.neighbors)]

\* line 662
TrunkAttention ==
    /\ trunk.pc = "attn"
    /\ trunk.layer < trunk.depth
    /\ trunk' = [trunk EXCEPT
                   !.pc = "ff",
                   !.paired = @ \cup
                       { [site |-> "Attention.prenorm",
                          pairs |-> NormPairing(trunk.dim, trunk.x)],
                         [site |-> "Attention.forward",
                          pairs |-> AttnPairing(trunk.heads, NormForward(trunk.dim, trunk.x))] },
                   !.x = residual_fn(AttentionForward(trunk.dim, trunk.dim_head, trunk.heads,
                                                      trunk.x, trunk.neighbors),
                                     trunk.x, FALSE)]

\* line 663
TrunkFeedForward ==
    /\ trunk.pc = "ff"
    /\ trunk' = [trunk EXCEPT
                   !.pc = "attn",
                   !.layer = trunk.layer + 1,
                   !.paired = @ \cup
                       { [site |-> "FeedForward.prenorm",
                          pairs |-> NormPairing(trunk.dim, trunk.x)] },
                   !.x = residual_fn(FeedForwardForward(trunk.dim, trunk.dim, trunk.x),
                                     trunk.x, FALSE)]

\* line 667
TrunkNorm ==
    /\ trunk.pc = "attn"
    /\ trunk.layer = trunk.depth
    /\ trunk' = [trunk EXCEPT
                   !.pc = "out",
                   !.paired = @ \cup
                       { [site |-> "norm", pairs |-> NormPairing(trunk.dim, trunk.x)] },
                   !.x = NormForward(trunk.dim, trunk.x)]

\* lines 671-685
TrunkReturn ==
    /\ trunk.pc = "out"
    /\ LET ones    == [d \in 1..Len(trunk.dim) |-> 1]
           reduced == IF trunk.reduce_dim_out
                      THEN SqueezeChannels(IF trunk.linear_out
                                           THEN LinearForward(trunk.dim, ones, trunk.x)
                                           ELSE FeedForwardForward(trunk.dim, ones, trunk.x))
                      ELSE trunk.x
           pooled  == IF trunk.return_pooled THEN PoolNodes(reduced) ELSE reduced
           \* ff_out, when it is a FeedForward, starts with its prenorm
           seen    == IF trunk.reduce_dim_out /\ ~trunk.linear_out
                      THEN { [site |-> "ff_out.prenorm",
                              pairs |-> NormPairing(trunk.dim, trunk.x)] }
                      ELSE {}
       IN  IF Has(pooled, 0) /\ Has(pooled, 1)
           THEN trunk' = [trunk EXCEPT !.pc = "done", !.x = pooled,
                                       !.paired = @ \cup seen,
                                       !.type0 = SqueezeLast(Get(pooled, 0)),
                                       !.type1 = Get(pooled, 1)]
           ELSE \* x[1] of a model of one degree: KeyError
                trunk' = [trunk EXCEPT !.pc = "aborted", !.x = pooled,
                                       !.paired = @ \cup seen]

InitTrunk ==
    /\ FwdIdle
    /\ ff = Idle
    /\ gate = Idle
    /\ conv = Idle
    /\ attn = Idle
    /\ TrunkInitState

NextTrunk ==
    \/ TrunkPrepare /\ UNCHANGED <<fwdVars, gate, conv, attn, ff>>
    \/ TrunkAssertNeighbors /\ UNCHANGED <<fwdVars, gate, conv, attn, ff>>
    \/ TrunkConvIn /\ UNCHANGED <<fwdVars, gate, conv, attn, ff>>
    \/ TrunkAttention /\ UNCHANGED <<fwdVars, gate, conv, attn, ff>>
    \/ TrunkFeedForward /\ UNCHANGED <<fwdVars, gate, conv, attn, ff>>
    \/ TrunkNorm /\ UNCHANGED <<fwdVars, gate, conv, attn, ff>>
    \/ TrunkReturn /\ UNCHANGED <<fwdVars, gate, conv, attn, ff>>

SpecTrunk == InitTrunk /\ [][NextTrunk]_vars

----------------------------------------------------------------------------
(* FeedForward, lines 321-351: the construction and the channel counts of  *)
(* the features on their way through forward.  ff.x[d + 1] is the width of *)
(* degree d; the Gate that FeedForward builds is the variable gate.         *)

MaxMult == 2

\* line 338: default(fiber_out, fiber)
default(val, d) == IF exists(val) THEN val ELSE d

\* lines 79-81: Linear(fiber_in, fiber_out), its (degree, dim_in, dim_out)
LinearConstruct(fiber_in, fiber_out) == fiber_and(fiber_in, fiber_out)

\* line 87: einsum('b n d m, d e -> b n e m', x[degree], weight) needs the
\* width of x[degree] to be the weight's dim_in
EinsumFits(linear, widths) ==
    \A j \in 1..Len(linear) :
        /\ linear[j].degree + 1 <= Len(widths)
        /\ widths[linear[j].degree + 1] = linear[j].dim

\* lines 83-89: Linear.forward, on the widths
LinearWidths(linear) == [j \in 1..Len(linear) |-> linear[j].dim_out]

FFInitState ==
    /\ ff \in { [pc |-> "new", fiber |-> f, fiber_out |-> fo, mult |-> m,
                 fiber_hidden |-> None, project_in_fiber_hidden |-> None,
                 project_in |-> None, project_out |-> None, x |-> None] :
                 f \in Fibers(MaxDegrees, MaxDim), m \in 0..MaxMult,
                 fo \in {None} \cup Fibers(MaxDegrees, 1) }
    \* Equiformer passes no fiber_out, or (1,) * num_degrees
    /\ exists(ff.fiber_out) =>
          /\ Len(ff.fiber_out) = Len(ff.fiber)
          /\ \A d \in 1..Len(ff.fiber_out) : ff.fiber_out[d] = 1

\* lines 322-343: FeedForward.__init__; Gate's assertion ends the construction
FFConstruct ==
    /\ ff.pc = "new"
    /\ LET fiber_hidden == FiberHidden(ff.fiber, ff.mult)
           project_in_fiber_hidden == ProjectInFiberHidden(ff.fiber, ff.mult)
           fiber_out == default(ff.fiber_out, ff.fiber)
           g == GateConstruct(project_in_fiber_hidden)
       IN  /\ gate' = g
           /\ ff' = IF g.pc = "constructed"
                    THEN [ff EXCEPT
                            !.pc = "constructed",
                            !.fiber_out = fiber_out,
                            !.fiber_hidden = fiber_hidden,
                            !.project_in_fiber_hidden = project_in_fiber_hidden,
                            !.project_in = LinearConstruct(ff.fiber, project_in_fiber_hidden),
                            !.project_out = LinearConstruct(fiber_hidden, fiber_out)]
                    ELSE [ff EXCEPT !.pc = "failed"]

\* lines 346-348: prenorm (the widths stay) and project_in
FFProjectIn ==
    /\ ff.pc = "constructed"
    /\ ff' = IF EinsumFits(ff.project_in, ff.fiber)
             THEN [ff EXCEPT !.pc = "projected", !.x = LinearWidths(ff.project_in)]
             ELSE [ff EXCEPT !.pc = "einsum_error"]
    /\ UNCHANGED gate

\* line 349: the Gate splits degree 0 and keeps the rest
FFGate ==
    /\ ff.pc = "projected"
    /\ gate' = [gate EXCEPT !.pc = "forwarded", !.out = GateForwardFiber(gate)]
    /\ ff' = [ff EXCEPT !.pc = "gated", !.x = GateForwardFiber(gate)]

\* line 350: project_out
FFProjectOut ==
    /\ ff.pc = "gated"
    /\ ff' = IF EinsumFits(ff.project_out, ff.x)
             THEN [ff EXCEPT !.pc = "done", !.x = LinearWidths(ff.project_out)]
             ELSE [ff EXCEPT !.pc = "einsum_error"]
    /\ UNCHANGED gate

InitFF ==
    /\ FwdIdle
    /\ gate = Idle
    /\ conv = Idle
    /\ attn = Idle
    /\ trunk = Idle
    /\ FFInitState

NextFF ==
    \/ FFConstruct /\ UNCHANGED <<fwdVars, conv, attn, trunk>>
    \/ FFProjectIn /\ UNCHANGED <<fwdVars, conv, attn, trunk>>
    \/ FFGate /\ UNCHANGED <<fwdVars, conv, attn, trunk>>
    \/ FFProjectOut /\ UNCHANGED <<fwdVars, conv, attn, trunk>>

SpecFF == InitFF /\ [][NextFF]_vars

----------------------------------------------------------------------------
(* Properties of Equiformer.forward's neighbour stage, checked under Spec. *)

Selected == pc \in {"basis", "done"}

\* the distance of nodes i and j, from the input coordinates
Dist(i, j) == Abs(coors[i] - coors[j])

\* the neighbor-validity mask given to the call allows the pair (i, j)
Allowed(i, j) == ~exists(nmask) \/ nmask[i][j]

SelectedOf(i) == { neighbor_indices[i][p] : p \in 1..Len(neighbor_indices[i]) }

\* C2 (self-exclusion): once the neighbours are selected, no node's own index
\* is among its neighbor_indices, whatever the coordinates, the masks,
\* num_neighbors and valid_radius are.
C2_SelfExclusion ==
    Selected => \A i \in 1..n : \A p \in 1..Len(neighbor_indices[i]) :
                    /\ neighbor_indices[i][p] \in 1..n
                    /\ neighbor_indices[i][p] # i

C2_Witness ==
    /\ pc = "done"
    /\ n = MaxN
    /\ total_neighbors = n - 1
    /\ exists(nmask)
    /\ exists(mask)

\* C3 (k nearest): once the neighbours are selected, every node has exactly
\* k = min(num_neighbors, n - 1) distinct neighbours, and no unselected
\* candidate that the neighbor-validity mask allows is strictly nearer than a
\* selected one; a neighbor-validity mask that marks more than num_neighbors
\* neighbours only raises the diagnostic: the call aborts for no other reason
\* than a total of zero neighbours.
C3_KNearest ==
    /\ Selected =>
          \A i \in 1..n :
             /\ Len(neighbor_indices[i]) = Min(num_neighbors, n - 1)
             /\ Cardinality(SelectedOf(i)) = Min(num_neighbors, n - 1)
             /\ \A u \in (1..n) \ (SelectedOf(i) \cup {i}) :
                   Allowed(i, u) => \A s \in SelectedOf(i) : ~(Dist(i, u) < Dist(i, s))
    /\ diagnostic =>
          /\ exists(nmask)
          /\ \E i \in 1..n :
                Cardinality({ j \in (1..n) \ {i} : nmask[i][j] }) > num_neighbors
    /\ pc = "aborted" => Min(num_neighbors, n - 1) <= 0

C3_Witness ==
    /\ pc = "done"
    /\ diagnostic
    /\ \E i \in 1..n : \E u \in (1..n) \ (SelectedOf(i) \cup {i}) :
          /\ Allowed(i, u)
          /\ \E s \in SelectedOf(i) : Dist(i, s) < Dist(i, u)

\* C4 (validity of a selected neighbour), the claim as stated: a selected
\* neighbour j of node i is valid in neighbor_mask only if its distance to i
\* does not exceed valid_radius, the padding mask (when supplied) is true for
\* i and j, and the neighbor-validity mask (when supplied) is true for (i, j);
\* for every configured valid_radius.
C4_ValidOnlyIfAllowed ==
    Selected =>
       \A i \in 1..n : \A p \in 1..Len(neighbor_indices[i]) :
          neighbor_mask[i][p] =>
             LET j == neighbor_indices[i][p]
             IN  /\ Dist(i, j) <= valid_radius_cfg
                 /\ exists(mask) => (mask[i] /\ mask[j])
                 /\ Allowed(i, j)

\* The same statement for a valid_radius below the fill value of masked-out
\* distances (torch.finfo.max): there the code does keep it.
C4_BelowMaxValue ==
    valid_radius_cfg < MaxValue => C4_ValidOnlyIfAllowed

\* C5 (neighbour degeneracy), the claim as stated: with num_neighbors = 0 the
\* call forces valid_radius to 0 and completes, with a neighbor_mask in which
\* only the neighbours adjacent by adj_mat are valid (adj_mat is not supplied
\* here, so none is).
C5_DegenerateCompletes ==
    (num_neighbors = 0 /\ pc \in {"done", "aborted"}) =>
        /\ pc = "done"
        /\ valid_radius = 0
        /\ \A i \in 1..n : \A p \in 1..Len(neighbor_mask[i]) : ~neighbor_mask[i][p]

----------------------------------------------------------------------------
(* Properties of Gate, checked under SpecGate. *)

\* C8 (gate precondition): constructing a Gate with fiber[0] <= sum(fiber[1:])
\* fails at construction and no forward computation follows; with
\* fiber[0] > sum(fiber[1:]) it succeeds and the degree-0 channels are split
\* into blocks of sizes [fiber[1], ..., fiber[D], fiber[0] - sum(fiber[1:])].
C8_GatePrecondition ==
    LET f    == gate.fiber
        rest == Sum([d \in 1..(Len(f) - 1) |-> f[d + 1]])
    IN  gate.pc # "new" =>
           /\ f[1] <= rest => (gate.pc = "failed" /\ gate.out = None)
           /\ f[1] > rest =>
                 /\ gate.pc \in {"constructed", "forwarded"}
                 /\ Len(gate.type0_dim_split) = Len(f)
                 /\ \A d \in 1..(Len(f) - 1) : gate.type0_dim_split[d] = f[d + 1]
                 /\ gate.type0_dim_split[Len(f)] = f[1] - rest
                 /\ Sum(gate.type0_dim_split) = f[1]

C8_Witness ==
    /\ gate.pc = "failed"
    /\ Len(gate.fiber) = 3
    /\ gate.fiber[1] = gate.fiber[2] + gate.fiber[3]
    /\ gate.fiber[1] > 0

----------------------------------------------------------------------------
(* Properties of Conv.forward, checked under SpecConv. *)

\* The output of degree_out computed on the whole tensors, with no chunking:
\* at every slice p, the sum over the input degrees of the kernel applied to
\* slice p of x, of the edge features and of the basis.
WholeOutput(c, degree_out) ==
    LET summed == [p \in 1..c.nodes |->
                      [di \in 1..Len(c.fiber_in) |->
                          << "conv", << di - 1, degree_out >>,
                             << (IF c.edges THEN "rel_dist,edges" ELSE "rel_dist"), p >>,
                             << "basis", di - 1, degree_out, p >>,
                             << "x", di - 1, p >> >>]]
        pooled == IF c.pool
                  THEN [p \in 1..c.nodes |->
                           << (IF c.neighbor_masks THEN "masked_mean" ELSE "mean"), summed[p] >>]
                  ELSE summed
    IN  IF c.self_interaction /\ degree_out < Len(c.fiber_in)
        THEN [p \in 1..c.nodes |-> << "+", pooled[p], << "linear", degree_out, p >> >>]
        ELSE pooled

RECURSIVE Concat(_)
Concat(chunks) == IF Len(chunks) = 0 THEN << >> ELSE chunks[1] \o Concat(Tail(chunks))

\* C7 (chunk invariance): for every splits (4 and 1 among them) the output of
\* Conv.forward is the output computed on the whole tensors, so the output
\* with splits = 4 equals the output with splits = 1; and the chunks of the
\* inputs, of the edge features and of the basis, concatenated, are the
\* tensors themselves: every slice once, in the original order.
C7_ChunkInvariance ==
    /\ conv.pc = "done" =>
          /\ Len(conv.outputs) = Len(conv.fiber_out)
          /\ \A j \in 1..Len(conv.outputs) :
                /\ conv.outputs[j].degree = j - 1
                /\ conv.outputs[j].t = WholeOutput(conv, j - 1)
    /\ conv.pc = "chunk" =>
          /\ Concat(conv.split_x) = conv.x
          /\ Concat(conv.split_edge_features) = EdgeFeatures(conv.nodes, conv.edges)
          /\ Len(conv.split_x) = Len(conv.split_basis)
          /\ Len(conv.split_edge_features) = Len(conv.split_basis)
          /\ \A key \in (0..(Len(conv.fiber_in) - 1)) \X (0..(Len(conv.fiber_out) - 1)) :
                Concat([j \in 1..Len(conv.split_basis) |-> conv.split_basis[j][key]])
                   = [p \in 1..conv.nodes |-> << "basis", key[1], key[2], p >>]

C7_Witness ==
    /\ conv.pc = "done"
    /\ conv.splits = 4
    /\ conv.nodes = 6
    /\ Len(conv.fiber_in) = 2
    /\ Len(conv.fiber_out) = 2
    /\ conv.self_interaction

----------------------------------------------------------------------------
(* Properties of Attention.forward, checked under SpecAttn. *)

SelfPad == IF attn.attend_self THEN 1 ELSE 0

\* C10 (invalid neighbours are excluded from attention), the claim as stated:
\* for every degree, head and node, and for either setting of attend_self, a
\* selected neighbour whose neighbor_mask entry is false gets attention weight
\* zero and contributes nothing to the node's output, also when all the
\* selected neighbours of the node are invalid; the self term is never masked.
C10_InvalidExcluded ==
    /\ \A d \in 1..Len(attn.outputs) :
          \A h \in 1..Len(attn.outputs[d].t) : \A i \in 1..attn.nodes :
             /\ exists(attn.neighbor_mask) =>
                   \A p \in 1..attn.neighbors :
                      ~attn.neighbor_mask[i][p] => (p + SelfPad) \notin attn.outputs[d].t[h][i]
             /\ attn.attend_self => 1 \in attn.outputs[d].t[h][i]
    /\ (attn.pc = "softmax" /\ attn.attend_self) =>
          \A h \in 1..Len(attn.sim) : \A i \in 1..attn.nodes :
             attn.sim[h][i][1] # 0 - MaxValue

\* The same statement for the nodes that have the self term or at least one
\* valid neighbour: there the code does keep it.
C10_ExcludedUnlessAllInvalid ==
    /\ \A d \in 1..Len(attn.outputs) :
          \A h \in 1..Len(attn.outputs[d].t) : \A i \in 1..attn.nodes :
             /\ (exists(attn.neighbor_mask) /\
                   (attn.attend_self \/ \E q \in 1..attn.neighbors : attn.neighbor_mask[i][q])) =>
                   \A p \in 1..attn.neighbors :
                      ~attn.neighbor_mask[i][p] => (p + SelfPad) \notin attn.outputs[d].t[h][i]
             /\ attn.attend_self => 1 \in attn.outputs[d].t[h][i]
    /\ (attn.pc = "softmax" /\ attn.attend_self) =>
          \A h \in 1..Len(attn.sim) : \A i \in 1..attn.nodes :
             attn.sim[h][i][1] # 0 - MaxValue

----------------------------------------------------------------------------
(* Properties of Equiformer.forward's feature maps, checked under SpecTrunk. *)

----------------------------------------------------------------------------
(* Properties of FeedForward, checked under SpecFF. *)

FFConstructed == ff.pc \in {"constructed", "projected", "gated", "done"}

\* C11, as stated: for every fiber and every multiplier, constructing a
\* FeedForward never fails the Gate assertion.
C11_NeverFailsGate == ff.pc # "failed"

\* C11, amended: the construction of a FeedForward fails the Gate assertion
\* exactly when fiber[0] * mult is 0; in every other case the fiber handed to
\* the Gate has a degree-0 width above the sum of its higher-degree widths, and
\* the widths leaving the Gate are fiber * mult per degree, which are the
\* dim_in of project_out's weights.
C11_GateByConstruction ==
    /\ ff.pc = "failed" => ff.fiber[1] * ff.mult = 0
    /\ FFConstructed =>
          /\ ff.fiber[1] * ff.mult > 0
          /\ gate.pc \in {"constructed", "forwarded"}
          /\ gate.fiber = ff.project_in_fiber_hidden
          /\ gate.fiber[1] > Sum(Tail(gate.fiber))
    /\ ff.pc # "einsum_error"
    /\ ff.pc = "gated" =>
          /\ ff.x = [d \in 1..Len(ff.fiber) |-> ff.fiber[d] * ff.mult]
          /\ gate.out = ff.x
          /\ \A j \in 1..Len(ff.project_out) :
                ff.project_out[j].dim = ff.x[ff.project_out[j].degree + 1]

\* a FeedForward with gate channels (a degree above 0 of positive width) and
\* a multiplier above 1 has run its Gate
C11_Witness ==
    /\ ff.pc = "gated"
    /\ ff.mult > 1
    /\ Len(ff.fiber) = MaxDegrees
    /\ \A d \in 1..Len(ff.fiber) : ff.fiber[d] > 0
    /\ Sum(Tail(ff.fiber)) > ff.fiber[1]

----------------------------------------------------------------------------
(* Properties of the trunk's feature map, checked under SpecTrunk. *)

\* x after conv_in (line 650) and after each residual step (lines 662, 663)
AfterResidualStep == trunk.pc \in {"attn", "ff"}

\* C12 (feature-map invariant of the trunk): after conv_in and after every
\* residual step of every layer, x holds exactly the degrees 0..num_degrees-1,
\* and degree d has dim[d] channels and order 2d+1.
C12_FeatureMapInvariant ==
    AfterResidualStep =>
        /\ Len(trunk.x) = Len(trunk.dim)
        /\ \A d \in 0..(Len(trunk.dim) - 1) :
              /\ Has(trunk.x, d)
              /\ Get(trunk.x, d) = << trunk.b, trunk.n, trunk.dim[d + 1], 2 * d + 1 >>

\* both residual steps of a layer have run, on a model whose input has fewer
\* degrees than the trunk and whose degrees differ in width
C12_Witness ==
    /\ trunk.pc = "attn"
    /\ trunk.depth >= 1
    /\ trunk.layer = trunk.depth
    /\ Len(trunk.dim_in) < Len(trunk.dim)
    /\ trunk.dim[1] # trunk.dim[2]
    /\ trunk.heads[1] = DefaultHeads

\* the pairs in which the parameters of degree d meet the tensor of degree d,
\* for every degree of the trunk
MatchingPairs == [j \in 1..Len(trunk.dim) |-> << j - 1, j - 1 >>]

\* C13 (per-degree parameters meet the matching degree): every feature map
\* that reaches a Norm or Attention.forward's loop iterates its degrees in the
\* order 0, 1, ..., num_degrees-1, so that the scale, heads and scale entries
\* built for degree d, which are paired by position, meet the degree-d tensor.
C13_ParametersMeetDegree ==
    trunk.pc # "idle" =>
        \A p \in trunk.paired : p.pairs = MatchingPairs

\* a returned call on feats given as a dict with degree 1 first, through a
\* layer and a FeedForward ff_out: all five sites have paired their parameters
C13_Witness ==
    /\ trunk.pc = "done"
    /\ trunk.feats_reversed
    /\ trunk.depth >= 1
    /\ Len(trunk.dim) = MaxTrunkDegrees
    /\ { p.site : p \in trunk.paired } =
          { "Attention.prenorm", "Attention.forward", "FeedForward.prenorm",
            "norm", "ff_out.prenorm" }

====
